---- MODULE Spec2Model ----
(***************************************************************************)
(* A model of ietf-info.py: one run of the script, from the command line   *)
(* to the summary.  The state is the script's globals (NAME and the seven  *)
(* result dictionaries), the position of main(), the position of every     *)
(* check_rfc task that asyncio.gather started, and the outside world the   *)
(* run talks to (the argument list, the index document and the answers to  *)
(* the per-document lookups), which is fixed when the run starts.          *)
(*                                                                         *)
(* asyncio runs the coroutines on one thread: a coroutine only gives up    *)
(* control at `await http_get(...)`.  Every action below is therefore the  *)
(* code between two awaits, run to completion.                             *)
(*                                                                         *)
(* Text is a sequence of characters.  A few long literals of the source    *)
(* are one character of the model ("</div>", ...); bytes that are not      *)
(* ASCII are written by their hexadecimal value ("C3", "A9", "E9").        *)
(***************************************************************************)
EXTENDS Integers, Sequences, FiniteSets, TLC

\* The longest index table the model reads.
MaxRows == 2

----------------------------------------------------------------------------
(* Globals of the script that the command line cannot change.              *)

FIRST_YEAR == 2022
\* dt.date.today().year when the script is loaded; the year the spec's
\* example scenario uses.
LAST_YEAR == 2023
FIRST_RFC == 7000
LAST_RFC == 20000

\* '-i' is not in OPTIONS, so getopt refuses it and INCLUDE never changes.
INCLUDE ==
    { "PROPOSED STANDARD", "BEST CURRENT PRACTICE", "HISTORIC",
      "EXPERIMENTAL", "INFORMATIONAL", "ACKNOWLEDGMENTS" }

----------------------------------------------------------------------------
(* Python's str and bytes operations, as far as the script uses them.      *)

\* `pat in text` for two strings.
Contains(text, pat) ==
    \E i \in 0..(Len(text) - Len(pat)) :
        \A k \in 1..Len(pat) : text[i + k] = pat[k]

\* `x in xs` for a list.
Member(x, xs) == \E i \in 1..Len(xs) : xs[i] = x

Tail2(s) == SubSeq(s, 3, Len(s))

AsciiBytes ==
    { "J", "D", "r", "x", " ", ".", "</div>",
      "<div class=\"flex-fill text-end\">",
      "<span class=\"text-muted small\">(was Discuss)" }

\* bytes.decode(): UTF-8.  An ASCII byte is its character, C3 A9 is one
\* character, and a lead byte without its continuation byte, or a
\* continuation byte on its own, raises UnicodeDecodeError.
RECURSIVE Utf8Decode(_)
Utf8Decode(bytes) ==
    IF bytes = <<>> THEN [ok |-> TRUE, text |-> <<>>]
    ELSE IF Head(bytes) \in AsciiBytes
    THEN LET rest == Utf8Decode(Tail(bytes))
         IN  [ok |-> rest.ok, text |-> <<Head(bytes)>> \o rest.text]
    ELSE IF Head(bytes) = "C3" /\ Len(bytes) >= 2 /\ bytes[2] = "A9"
    THEN LET rest == Utf8Decode(Tail2(bytes))
         IN  [ok |-> rest.ok, text |-> <<"e-acute">> \o rest.text]
    ELSE [ok |-> FALSE, text |-> <<>>]

Latin1Char(b) ==
    CASE b = "C3" -> "A-tilde"
      [] b = "A9" -> "copyright"
      [] b = "E9" -> "e-acute"
      [] OTHER -> b

\* bytes.decode('latin-1'): every byte is a character, so it never raises.
Latin1Decode(bytes) ==
    [ok |-> TRUE, text |-> [k \in 1..Len(bytes) |-> Latin1Char(bytes[k])]]

\* The try/except ladder of check_acknowledgments and check_ballot: UTF-8,
\* then Latin-1.  ok = FALSE is the inner `except UnicodeDecodeError`.
DecodeBody(bytes) ==
    LET utf8 == Utf8Decode(bytes)
    IN  IF utf8.ok THEN utf8 ELSE Latin1Decode(bytes)

\* int(): the numerals the model's documents use; anything else raises
\* ValueError.
ParseInt(tok) ==
    CASE tok = "2021" -> [ok |-> TRUE, val |-> 2021]
      [] tok = "2022" -> [ok |-> TRUE, val |-> 2022]
      [] tok = "2023" -> [ok |-> TRUE, val |-> 2023]
      [] tok = "2024" -> [ok |-> TRUE, val |-> 2024]
      [] tok = "6999" -> [ok |-> TRUE, val |-> 6999]
      [] tok = "7000" -> [ok |-> TRUE, val |-> 7000]
      [] tok = "7001" -> [ok |-> TRUE, val |-> 7001]
      [] tok = "7002" -> [ok |-> TRUE, val |-> 7002]
      [] tok = "7003" -> [ok |-> TRUE, val |-> 7003]
      [] tok = "20000" -> [ok |-> TRUE, val |-> 20000]
      [] tok = "20001" -> [ok |-> TRUE, val |-> 20001]
      [] OTHER -> [ok |-> FALSE, val |-> 0]

\* str.lower() on the keys the index uses.
Lower(key) ==
    CASE key = "Status" -> "status"
      [] key = "Stream" -> "stream"
      [] key = "Format" -> "format"
      [] OTHER -> key

----------------------------------------------------------------------------
(* The index document.  A row of a table is what bs4 hands to validate_row:*)
(*   name      the tag name; "" for a text node between two tags (bs4      *)
(*             gives such a node the name None)                            *)
(*   td        the row has a first cell                                    *)
(*   noscript  the first cell holds a <noscript> element                   *)
(*   number    the text of that element                                    *)
(*   bold      the row has a second cell with a <b> element                *)
(*   title     the text of that <b>                                        *)
(*   lines     the non-empty stripped lines of the second cell's text      *)
(* and a line is                                                           *)
(*   bracket, colon   whether it contains '[', ':'                         *)
(*   notissued        whether it contains 'Not issued'                     *)
(*   words            line.split()                                         *)
(*   parts            part.split(': ') of every part of                    *)
(*                    line.replace('(', '').replace(')', '').split(', ')   *)

\* One pass of `for part in parts` (lines 85-87); a part without ': ' has
\* no key_val_pair[1] and raises IndexError.
RECURSIVE SetAttributes(_, _)
SetAttributes(fields, parts) ==
    IF parts = <<>> THEN [ok |-> TRUE, fields |-> fields]
    ELSE IF Len(Head(parts)) < 2 THEN [ok |-> FALSE, fields |-> fields]
    ELSE SetAttributes((Lower(Head(parts)[1]) :> Head(parts)[2]) @@ fields,
                       Tail(parts))

\* The body of `for line in lines[1:]` for one line (lines 79-87).
\* line.split()[-2] raises IndexError on a line of one word, int() raises
\* ValueError on a word that is no numeral.
ParseLine(fields, line) ==
    IF line.bracket
    THEN IF Len(line.words) < 2 THEN [ok |-> FALSE, fields |-> fields]
         ELSE LET year == ParseInt(line.words[Len(line.words) - 1])
              IN  IF year.ok
                  THEN [ok |-> TRUE, fields |-> ("year" :> year.val) @@ fields]
                  ELSE [ok |-> FALSE, fields |-> fields]
    ELSE IF line.colon THEN SetAttributes(fields, line.parts)
    ELSE [ok |-> TRUE, fields |-> fields]

RECURSIVE ParseLines(_, _)
ParseLines(fields, lines) ==
    IF lines = <<>> THEN [ok |-> TRUE, fields |-> fields]
    ELSE LET one == ParseLine(fields, Head(lines))
         IN  IF one.ok THEN ParseLines(one.fields, Tail(lines)) ELSE one

NoFields == [k \in {} |-> 0]

\* parse_rfc_row: ok = FALSE when the function raises (AttributeError on a
\* missing element, ValueError, IndexError), otherwise the dict it returns.
parse_rfc_row(row) ==
    IF ~row.td \/ ~row.noscript \/ ~row.bold \/ ~ParseInt(row.number).ok
    THEN [ok |-> FALSE, fields |-> NoFields]
    ELSE LET issued == \A k \in 1..Len(row.lines) : ~row.lines[k].notissued
             first == [number |-> ParseInt(row.number).val,
                       title |-> row.title,
                       issued |-> issued]
         IN  ParseLines(first,
                        IF row.lines = <<>> THEN <<>> ELSE Tail(row.lines))

\* The `return (...)` of validate_row on a parsed row (lines 96-101).  `and`
\* evaluates left to right and stops at the first false operand; row['status']
\* and row['year'] raise KeyError when the key is missing.
\* raised: the expression raises; keep: its value.
ValidateFieldsStrictYear(fields) ==
    IF "status" \notin DOMAIN fields THEN [raised |-> TRUE, keep |-> FALSE]
    ELSE IF fields["status"] \notin INCLUDE \/ ~fields["issued"]
    THEN [raised |-> FALSE, keep |-> FALSE]
    ELSE IF "year" \notin DOMAIN fields THEN [raised |-> TRUE, keep |-> FALSE]
    ELSE [raised |-> FALSE,
          keep |-> /\ LAST_YEAR > fields["year"]
                   /\ fields["year"] >= FIRST_YEAR
                   /\ LAST_RFC >= fields["number"]
                   /\ fields["number"] >= FIRST_RFC]

ValidateFields(fields) ==
    IF "status" \notin DOMAIN fields THEN [raised |-> TRUE, keep |-> FALSE]
    ELSE IF fields["status"] \notin INCLUDE \/ ~fields["issued"]
    THEN [raised |-> FALSE, keep |-> FALSE]
    ELSE IF "year" \notin DOMAIN fields THEN [raised |-> TRUE, keep |-> FALSE]
    ELSE [raised |-> FALSE,
          keep |-> /\ LAST_YEAR >= fields["year"]
                   /\ fields["year"] >= FIRST_YEAR
                   /\ LAST_RFC >= fields["number"]
                   /\ fields["number"] >= FIRST_RFC]

\* validate_row.  A text node has no name and is refused; a <tr> without a
\* cell raises AttributeError on row.td.noscript.
validate_row(row) ==
    IF row.name # "tr" THEN [raised |-> FALSE, keep |-> FALSE]
    ELSE IF ~row.td THEN [raised |-> TRUE, keep |-> FALSE]
    ELSE IF ~row.noscript THEN [raised |-> FALSE, keep |-> FALSE]
    ELSE LET parsed == parse_rfc_row(row)
         IN  IF ~parsed.ok THEN [raised |-> TRUE, keep |-> FALSE]
             ELSE ValidateFields(parsed.fields)

\* The list comprehension of get_possible_rfcs (lines 181-182) over the rows
\* of one table, in document order.
RECURSIVE FilterRowsOf(_)
FilterRowsOf(rows) ==
    IF rows = <<>> THEN [raised |-> FALSE, table |-> <<>>]
    ELSE LET v == validate_row(Head(rows))
             rest == FilterRowsOf(Tail(rows))
         IN  IF v.raised THEN [raised |-> TRUE, table |-> <<>>]
             ELSE IF rest.raised THEN rest
             ELSE [raised |-> FALSE,
                   table |-> (IF v.keep
                              THEN <<parse_rfc_row(Head(rows)).fields>>
                              ELSE <<>>) \o rest.table]

\* The index of the table get_possible_rfcs reads: soup.table and then two
\* find_next_sibling('table') (lines 175-179).
TableIndex == 3

\* get_possible_rfcs after the fetch (lines 174-182).  With fewer than three
\* tables `table` is None and the next attribute access raises.
ParseIndex(tables) ==
    IF Len(tables) < TableIndex THEN [raised |-> TRUE, table |-> <<>>]
    ELSE FilterRowsOf(tables[TableIndex])

----------------------------------------------------------------------------
(* The documents the index is built from.                                  *)

PlainLine ==
    [bracket |-> FALSE, colon |-> FALSE, notissued |-> FALSE,
     words |-> <<"title">>, parts |-> <<>>]

NotIssuedLine ==
    [bracket |-> FALSE, colon |-> FALSE, notissued |-> TRUE,
     words |-> <<"Not", "issued">>, parts |-> <<>>]

\* "[ March 2022 ]"
DateLine(year) ==
    [bracket |-> TRUE, colon |-> FALSE, notissued |-> FALSE,
     words |-> <<"[", "March", year, "]">>, parts |-> <<>>]

\* "[ n.d. ]": int('n.d.') raises.
BadDateLine ==
    [bracket |-> TRUE, colon |-> FALSE, notissued |-> FALSE,
     words |-> <<"[", "n.d.", "]">>, parts |-> <<>>]

\* "(Status: PROPOSED STANDARD, Stream: IETF)"
AttrLine(status) ==
    [bracket |-> FALSE, colon |-> TRUE, notissued |-> FALSE,
     words |-> <<"(Status:", status, "Stream:", "IETF)">>,
     parts |-> << <<"Status", status>>, <<"Stream", "IETF">> >>]

\* "(Format: TXT, HTML)": the part 'HTML' has no ': '.
BadAttrLine ==
    [bracket |-> FALSE, colon |-> TRUE, notissued |-> FALSE,
     words |-> <<"(Format:", "TXT,", "HTML)">>,
     parts |-> << <<"Format", "TXT">>, <<"HTML">> >>]

DataRow(number, title, notIssued, dates, attrs) ==
    [name |-> "tr", td |-> TRUE, noscript |-> TRUE, number |-> number,
     bold |-> TRUE, title |-> title,
     lines |-> <<PlainLine>>
               \o (IF notIssued THEN <<NotIssuedLine>> ELSE <<>>)
               \o dates \o attrs]

GoodRow(number, title) ==
    DataRow(number, title, FALSE, <<DateLine("2022")>>,
            <<AttrLine("PROPOSED STANDARD")>>)

\* The whitespace between two rows.
TextNode ==
    [name |-> "", td |-> FALSE, noscript |-> FALSE, number |-> "",
     bold |-> FALSE, title |-> "", lines |-> <<>>]

\* A section header: a <tr> whose cell has no <noscript>.
HeaderRow == [TextNode EXCEPT !.name = "tr", !.td = TRUE]

\* A <tr> with no cell at all.
EmptyRow == [TextNode EXCEPT !.name = "tr"]

\* A <tbody> or another tag that is no <tr>.
OtherTag == [GoodRow("7000", "t") EXCEPT !.name = "tbody"]

NoBoldRow == [GoodRow("7000", "t") EXCEPT !.bold = FALSE]

BadNumberRow == [GoodRow("7000", "t") EXCEPT !.number = "RFC"]

DateCases ==
    {<<>>} \cup {<<DateLine(y)>> : y \in {"2021", "2022", "2023", "2024"}}

AttrCases ==
    {<<>>} \cup {<<AttrLine(st)>> : st \in {"PROPOSED STANDARD", "UNKNOWN"}}

\* Rows for the filter: every combination of status, issued and year on one
\* number, the numbers around both ends of the range, and the malformed rows.
FilterRows ==
    {DataRow("7000", "t", ni, d, a) :
        ni \in BOOLEAN, d \in DateCases, a \in AttrCases}
    \cup {GoodRow(n, "t") : n \in {"6999", "20000", "20001"}}
    \cup {TextNode, HeaderRow, EmptyRow, OtherTag, NoBoldRow, BadNumberRow,
          DataRow("7000", "t", FALSE, <<BadDateLine>>,
                  <<AttrLine("PROPOSED STANDARD")>>),
          DataRow("7000", "t", FALSE, <<DateLine("2022")>>, <<BadAttrLine>>)}

\* Rows for a whole run: two documents that pass the filter, one that does
\* not, a text node and a row without a status.
RunRows ==
    {GoodRow("7001", "A"), GoodRow("7002", "B"),
     DataRow("7003", "C", FALSE, <<DateLine("2021")>>,
             <<AttrLine("PROPOSED STANDARD")>>),
     TextNode,
     DataRow("7003", "C", FALSE, <<DateLine("2022")>>, <<>>)}

RunNumbers == {7001, 7002}

SeqsUpTo(S, n) == UNION {[1..k -> S] : k \in 0..n}

\* A table before the one the script reads; its row would pass the filter.
Decoy == <<GoodRow("7000", "decoy")>>

\* The answer to the index fetch: conn = FALSE is ConnectionError.
IndexDocs(rows) ==
    {[conn |-> TRUE, tables |-> <<Decoy, Decoy, t>>] :
        t \in SeqsUpTo(rows, MaxRows)}
    \cup {[conn |-> TRUE, tables |-> <<Decoy>>],
          [conn |-> FALSE, tables |-> <<>>]}

----------------------------------------------------------------------------
(* The answers to the per-document lookups.                                *)

Target == <<"J", "D">>
TargetJr == <<"J", "D", "r">>
\* A name with a full stop in it, as in an initial.
DottedName == <<"J", ".", "D">>
Other == <<"x", "x">>
\* None, and the empty string: the script only tests them for truth.
None == <<>>

CloseDiv == "</div>"
OpenDiv == "<div class=\"flex-fill text-end\">"
WasDiscuss == "<span class=\"text-muted small\">(was Discuss)"

\* doc.json: conn = FALSE is ConnectionError, usable = FALSE a body that
\* response.json() or the key lookups raise on.
Meta(authors, shepherd, ad) ==
    [conn |-> TRUE, usable |-> TRUE, authors |-> authors,
     shepherd |-> shepherd, ad |-> ad]
MetaDown == [Meta(<<>>, None, None) EXCEPT !.conn = FALSE, !.usable = FALSE]
MetaUnusable == [Meta(<<>>, None, None) EXCEPT !.usable = FALSE]

Body(content) == [conn |-> TRUE, content |-> content]
BodyDown == [conn |-> FALSE, content |-> <<>>]

TextNamed == Body(<<"x", "J", "D", "x">>)
TextPlain == Body(<<"D", "J", "C3", "A9">>)
TextLatin1Named == Body(<<"E9", "J", "D">>)
TextEmpty == Body(<<>>)
BallotDiscuss == Body(<<"x", "J", "D", " ", CloseDiv, OpenDiv, " ", WasDiscuss>>)
BallotNamed == Body(<<"J", "D", CloseDiv, "x", OpenDiv, WasDiscuss>>)
BallotLatin1Discuss == Body(<<"E9", "J", "D", CloseDiv, OpenDiv, WasDiscuss>>)
\* Ballots for a name with a full stop in it: another name stands before the
\* marker, and the dotted name is elsewhere in the body or nowhere.
BallotOtherDiscuss == Body(<<"J", "x", "D", CloseDiv, OpenDiv, WasDiscuss>>)
BallotDottedApart ==
    Body(<<"J", ".", "D", " ", "x", "J", "x", "D", CloseDiv, OpenDiv,
           WasDiscuss>>)

\* What the three lookups of one document number answer.
Profiles ==
    { [meta |-> Meta(<<Other, Target>>, Target, Target),
       ack |-> TextNamed, ballot |-> BallotDiscuss],
      [meta |-> MetaDown, ack |-> TextNamed, ballot |-> BallotNamed],
      [meta |-> MetaUnusable, ack |-> TextNamed, ballot |-> BallotNamed],
      [meta |-> Meta(<<Other>>, TargetJr, None),
       ack |-> BodyDown, ballot |-> BallotNamed],
      [meta |-> Meta(<<>>, Other, Target),
       ack |-> TextLatin1Named, ballot |-> BodyDown],
      [meta |-> Meta(<<TargetJr>>, None, Other),
       ack |-> TextNamed, ballot |-> TextPlain],
      [meta |-> Meta(<<>>, None, None),
       ack |-> TextPlain, ballot |-> BallotOtherDiscuss],
      [meta |-> Meta(<<Target>>, None, None),
       ack |-> TextEmpty, ballot |-> BallotLatin1Discuss],
      [meta |-> Meta(<<DottedName>>, None, DottedName),
       ack |-> TextEmpty, ballot |-> BallotDottedApart] }

\* The command lines: what getopt returns, option by option.
Opt(opt, val) == [opt |-> opt, val |-> val]
ArgLists ==
    { <<>>,
      <<Opt("-n", Target)>>,
      <<Opt("-n", DottedName)>>,
      <<Opt("-n", <<>>)>>,
      <<Opt("--name", <<>>)>>,
      <<Opt("-h", <<>>)>>,
      <<Opt("-n", Target), Opt("--help", <<>>)>>,
      <<Opt("-v", <<>>), Opt("-d", <<>>)>>,
      <<Opt("-i", Other), Opt("-n", Target)>> }

----------------------------------------------------------------------------
(* The state.                                                              *)

VARIABLES
    argv,             \* the command line (fixed)
    index,            \* the answer to the index fetch (fixed)
    net,              \* document number -> the answers to its lookups (fixed)
    NAME,             \* the global NAME
    pc,               \* where main() is:
                      \*   "start"      not yet run
                      \*   "exited"     sys.exit() in handle_arguments
                      \*   "index"      awaiting the index fetch
                      \*   "aborted"    sys.exit() in get_possible_rfcs
                      \*   "gather"     awaiting asyncio.gather
                      \*   "summarised" print_result() has run
                      \*   "crashed"    an exception left main()
    table,            \* the list get_possible_rfcs returned
    wf,               \* per entry of table, where its check_rfc task is:
                      \*   "meta", "ack", "ballot"  awaiting that lookup
                      \*   "done"       returned
                      \*   "raised"     ended with an exception
                      \*   "cancelled"  cancelled by asyncio.run
    AUTHOR, SHEPHERD, RESPONSIBLE_AD, CONTRIBUTOR, BALLOTED, DISCUSS,
    FAILED_CHECK,     \* the result dictionaries: number -> title
    issued,           \* the requests handed to http_get so far
    notFound,         \* the numbers reported as 'Name not found'
    writes            \* <<category, number>> -> how often `d[number] = title`
                      \*   has run on that category's dictionary

world == <<argv, index, net>>
dicts ==
    <<AUTHOR, SHEPHERD, RESPONSIBLE_AD, CONTRIBUTOR, BALLOTED, DISCUSS,
      FAILED_CHECK>>
vars == <<argv, index, net, NAME, pc, table, wf, AUTHOR, SHEPHERD,
          RESPONSIBLE_AD, CONTRIBUTOR, BALLOTED, DISCUSS, FAILED_CHECK,
          issued, notFound, writes>>

EmptyDict == [k \in {} |-> ""]

\* d[key] = value
Put(d, key, value) == (key :> value) @@ d

\* The key of every write: `rfc["number"]` of the task's own record.
KeyOfLast(rfc) == table[Len(table)]["number"]

Key(rfc) == rfc["number"]

\* `d[rfc["number"]] = rfc["title"]` under its `if`.
PutIfStatus(cond, d, rfc) ==
    IF cond THEN Put(d, Key(rfc), rfc["status"]) ELSE d

PutIf(cond, d, rfc) ==
    IF cond THEN Put(d, Key(rfc), rfc["title"]) ELSE d

NoWrites == [slot \in {} |-> 0]

Count(w, slot) == IF slot \in DOMAIN w THEN w[slot] ELSE 0

\* One more run of the assignment on category c's dictionary, under the
\* same `if` as the assignment.
Written(w, cond, c, rfc) ==
    IF cond
    THEN (<<c, Key(rfc)>> :> (Count(w, <<c, Key(rfc)>>) + 1)) @@ w
    ELSE w

IndexRequest == <<"index", 0>>

InitWith(docs, nets) ==
    /\ argv \in ArgLists
    /\ index \in docs
    /\ net \in nets
    /\ NAME = <<>>
    /\ pc = "start"
    /\ table = <<>>
    /\ wf = <<>>
    /\ AUTHOR = EmptyDict
    /\ SHEPHERD = EmptyDict
    /\ RESPONSIBLE_AD = EmptyDict
    /\ CONTRIBUTOR = EmptyDict
    /\ BALLOTED = EmptyDict
    /\ DISCUSS = EmptyDict
    /\ FAILED_CHECK = EmptyDict
    /\ issued = {}
    /\ notFound = {}
    /\ writes = NoWrites

Init == InitWith(IndexDocs(RunRows), [RunNumbers -> Profiles])

----------------------------------------------------------------------------
(* main() up to its first await: handle_arguments, then the index fetch.   *)

KnownOptions ==
    {"-h", "-v", "-d", "-n", "--help", "--verbose", "--debug", "--name"}

\* `if not NAME` (line 125).
NameMissingNever(name) == FALSE

NameMissing(name) == name = <<>>

\* The loop of handle_arguments over getopt's pairs (lines 109-124): exit is
\* the sys.exit() of '-h'.  '-v' and '-d' only turn printing on.
RECURSIVE ScanOptions(_, _)
ScanOptions(name, args) ==
    IF args = <<>> THEN [exit |-> FALSE, name |-> name]
    ELSE IF Head(args).opt \in {"-h", "--help"}
    THEN [exit |-> TRUE, name |-> name]
    ELSE IF Head(args).opt \in {"-n", "--name"}
    THEN ScanOptions(Head(args).val, Tail(args))
    ELSE ScanOptions(name, Tail(args))

\* handle_arguments: getopt raises GetoptError on an option that is not in
\* OPTIONS or LONG_OPTIONS; the function exits on '-h' and on an empty NAME.
handle_arguments(args) ==
    IF \E k \in 1..Len(args) : args[k].opt \notin KnownOptions
    THEN [raised |-> TRUE, exit |-> FALSE, name |-> <<>>]
    ELSE LET scan == ScanOptions(<<>>, args)
         IN  [raised |-> FALSE,
              exit |-> scan.exit \/ NameMissing(scan.name),
              name |-> scan.name]

MainStart ==
    /\ pc = "start"
    /\ LET args == handle_arguments(argv)
       IN  /\ NAME' = args.name
           /\ pc' = IF args.raised THEN "crashed"
                    ELSE IF args.exit THEN "exited" ELSE "index"
           /\ issued' = IF args.raised \/ args.exit THEN issued
                        ELSE issued \cup {IndexRequest}
    /\ UNCHANGED <<world, table, wf, dicts, notFound, writes>>

----------------------------------------------------------------------------
(* The index fetch answers: the rest of get_possible_rfcs, and main() up   *)
(* to `await asyncio.gather(...)`.  gather makes one task per entry of     *)
(* table; the event loop runs each task's first step, up to its metadata   *)
(* fetch, before it handles any answer, so the tasks start here.  gather   *)
(* of no task is done at once, and main() goes on to print_result().       *)

\* `except requests.exceptions.ConnectionError: ... sys.exit()`.
IndexFetchIgnored(resp) == FALSE

IndexFetchAborts(resp) == ~resp.conn

MetaRequests(t) == {<<"meta", t[k]["number"]>> : k \in 1..Len(t)}

IndexResponse ==
    /\ pc = "index"
    /\ LET parsed == ParseIndex(index.tables)
       IN  IF IndexFetchAborts(index)
           THEN /\ pc' = "aborted"
                /\ UNCHANGED <<table, wf, issued>>
           ELSE IF parsed.raised
           THEN /\ pc' = "crashed"
                /\ UNCHANGED <<table, wf, issued>>
           ELSE /\ table' = parsed.table
                /\ wf' = [k \in 1..Len(parsed.table) |-> "meta"]
                /\ issued' = issued \cup MetaRequests(parsed.table)
                /\ pc' = IF parsed.table = <<>> THEN "summarised" ELSE "gather"
    /\ UNCHANGED <<world, NAME, dicts, notFound, writes>>

----------------------------------------------------------------------------
(* One check_rfc task, from one await to the next.                         *)

Waiting == {"meta", "ack", "ballot"}

\* The event loop hands answers to tasks for as long as main() is in it:
\* from the gather of line 296 until main() returns after print_result().
LoopRuns == pc \in {"gather", "summarised"}

\* Task i goes to `stage`; a stage that awaits a lookup hands its request
\* to http_get.
Advance(i, stage) ==
    /\ wf' = [wf EXCEPT ![i] = stage]
    /\ issued' = IF stage \in Waiting
                 THEN issued \cup {<<stage, table[i]["number"]>>}
                 ELSE issued

\* Where check_rfc goes when the metadata fetch raises ConnectionError:
\* `print(...); return` (lines 192-194).
MetaFailureRaises == "raised"

MetaFailureOutcome == "done"

\* Where check_rfc goes after the metadata checks (lines 218-220).
AfterMetadata == IF "ACKNOWLEDGMENTS" \in INCLUDE THEN "ack" ELSE "ballot"

\* `d[key] and NAME in d[key]` on a string or None (lines 202-205, 211-214):
\* `in` on a string looks for a substring.
NamedEquals(value, name) == value # None /\ value = name

NamedIn(value, name) == value # None /\ Contains(value, name)

\* The shepherd test of check_rfc: an `if` of its own (line 202), whatever
\* the author test before it found.
ShepherdElif(resp, name) ==
    ~Member(name, resp.authors) /\ NamedIn(resp.shepherd, name)

ShepherdTest(resp, name) == NamedIn(resp.shepherd, name)

\* The metadata fetch of task i answers (lines 191-218).
MetaResponse(i) ==
    /\ LoopRuns
    /\ wf[i] = "meta"
    /\ LET rfc == table[i]
           resp == net[rfc["number"]].meta
           author == Member(NAME, resp.authors)
           shepherd == ShepherdTest(resp, NAME)
           ad == NamedIn(resp.ad, NAME)
       IN  IF ~resp.conn
           THEN /\ Advance(i, MetaFailureOutcome)
                /\ UNCHANGED <<AUTHOR, SHEPHERD, RESPONSIBLE_AD, writes>>
           ELSE IF ~resp.usable
           THEN /\ Advance(i, "raised")
                /\ UNCHANGED <<AUTHOR, SHEPHERD, RESPONSIBLE_AD, writes>>
           ELSE /\ AUTHOR' = PutIf(author, AUTHOR, rfc)
                /\ SHEPHERD' = PutIf(shepherd, SHEPHERD, rfc)
                /\ RESPONSIBLE_AD' = PutIf(ad, RESPONSIBLE_AD, rfc)
                /\ writes' =
                       Written(Written(Written(writes,
                           author, "authored", rfc),
                           shepherd, "shepherded", rfc),
                           ad, "responsible_approver", rfc)
                /\ Advance(i, AfterMetadata)
    /\ UNCHANGED <<world, NAME, pc, table, CONTRIBUTOR, BALLOTED, DISCUSS,
                   FAILED_CHECK, notFound>>

\* Where check_rfc goes when check_acknowledgments returns, whatever it
\* returns (line 220).
AckFailureEnds(connected) == IF connected THEN "ballot" ELSE "done"

AfterAcknowledgments(connected) == "ballot"

\* The acknowledgment fetch of task i answers: the rest of
\* check_acknowledgments (lines 231-248), then check_rfc up to the await in
\* check_ballot.  When neither decoding works, rfc_text is not bound and
\* `if rfc_text and ...` raises UnboundLocalError.
AckResponse(i) ==
    /\ LoopRuns
    /\ wf[i] = "ack"
    /\ LET rfc == table[i]
           resp == net[rfc["number"]].ack
           decoded == DecodeBody(resp.content)
           found == decoded.text # <<>> /\ Contains(decoded.text, NAME)
       IN  IF ~resp.conn
           THEN /\ Advance(i, AfterAcknowledgments(FALSE))
                /\ UNCHANGED <<CONTRIBUTOR, FAILED_CHECK, writes>>
           ELSE IF ~decoded.ok
           THEN /\ FAILED_CHECK' = PutIf(TRUE, FAILED_CHECK, rfc)
                /\ writes' = Written(writes, TRUE, "failed", rfc)
                /\ Advance(i, "raised")
                /\ UNCHANGED CONTRIBUTOR
           ELSE /\ CONTRIBUTOR' = PutIf(found, CONTRIBUTOR, rfc)
                /\ writes' = Written(writes, found, "acknowledged", rfc)
                /\ Advance(i, AfterAcknowledgments(TRUE))
                /\ UNCHANGED FAILED_CHECK
    /\ UNCHANGED <<world, NAME, pc, table, AUTHOR, SHEPHERD, RESPONSIBLE_AD,
                   BALLOTED, DISCUSS, notFound>>

\* The first index at or after k that holds no whitespace: `\s*`.
RECURSIVE SkipSpaces(_, _)
SkipSpaces(text, k) ==
    IF k <= Len(text) /\ text[k] = " " THEN SkipSpaces(text, k + 1) ELSE k

IsAt(text, k, char) == k <= Len(text) /\ text[k] = char

\* One character of NAME read as a regular expression: NAME goes into
\* re.compile() as it is (line 272), so a full stop stands for any
\* character.
MatchesChar(pattern, char) == pattern = "." \/ pattern = char

\* discuss_regex.search(rfc_text) (lines 271-279): the name as a pattern,
\* then `</div>`, the opening <div> and the '(was Discuss)' <span>, with any
\* whitespace between them.
DiscussSearch(text, name) ==
    \E i \in 0..(Len(text) - Len(name)) :
        /\ \A k \in 1..Len(name) : MatchesChar(name[k], text[i + k])
        /\ LET a == SkipSpaces(text, i + Len(name) + 1)
               b == SkipSpaces(text, a + 1)
               c == SkipSpaces(text, b + 1)
           IN  /\ IsAt(text, a, CloseDiv)
               /\ IsAt(text, b, OpenDiv)
               /\ IsAt(text, c, WasDiscuss)

\* The '(was Discuss)' search sits inside `if NAME in rfc_text:` (lines
\* 269-280).
DiscussOutsideIf(found, text, name) == DiscussSearch(text, name)

DiscussTest(found, text, name) == found /\ DiscussSearch(text, name)

\* The ballot fetch of task i answers: the rest of check_ballot (lines
\* 257-286), then the end of check_rfc (lines 221-222).
BallotResponse(i) ==
    /\ LoopRuns
    /\ wf[i] = "ballot"
    /\ LET rfc == table[i]
           resp == net[rfc["number"]].ballot
           decoded == DecodeBody(resp.content)
           found == resp.conn /\ decoded.ok /\ Contains(decoded.text, NAME)
           discuss == DiscussTest(found, decoded.text, NAME)
       IN  IF resp.conn /\ ~decoded.ok
           THEN /\ FAILED_CHECK' = PutIf(TRUE, FAILED_CHECK, rfc)
                /\ writes' = Written(writes, TRUE, "failed", rfc)
                /\ Advance(i, "raised")
                /\ UNCHANGED <<BALLOTED, DISCUSS, notFound>>
           ELSE /\ BALLOTED' = PutIf(found, BALLOTED, rfc)
                /\ DISCUSS' = PutIf(discuss, DISCUSS, rfc)
                /\ writes' =
                       Written(Written(writes, found, "balloted", rfc),
                               discuss, "objected", rfc)
                /\ notFound' = IF found THEN notFound
                               ELSE notFound \cup {rfc["number"]}
                /\ Advance(i, "done")
                /\ UNCHANGED FAILED_CHECK
    /\ UNCHANGED <<world, NAME, pc, table, AUTHOR, SHEPHERD, RESPONSIBLE_AD,
                   CONTRIBUTOR>>

----------------------------------------------------------------------------
(* main() after `await asyncio.gather(...)` (lines 296-298).               *)

\* gather hands the first exception of a task to main(), which does not
\* catch it; asyncio.run then cancels every task that has not ended.  The
\* other tasks are not stopped before that: an answer that arrives between
\* the exception and the cancellation is still handled.
Propagate ==
    /\ pc = "gather"
    /\ \E i \in 1..Len(wf) : wf[i] = "raised"
    /\ pc' = "crashed"
    /\ wf' = [k \in 1..Len(wf) |->
                 IF wf[k] \in Waiting THEN "cancelled" ELSE wf[k]]
    /\ UNCHANGED <<world, NAME, table, dicts, issued, notFound, writes>>

\* `await asyncio.gather(*tasks)` is over when every task has returned.
GatherFirst(tasks) == \E i \in 1..Len(tasks) : tasks[i] = "done"

GatherOver(tasks) == \A i \in 1..Len(tasks) : tasks[i] = "done"

\* Every task has returned: print_result().
Finish ==
    /\ pc = "gather"
    /\ GatherOver(wf)
    /\ pc' = "summarised"
    /\ UNCHANGED <<world, NAME, table, wf, dicts, issued, notFound, writes>>

Next ==
    \/ MainStart
    \/ IndexResponse
    \/ \E i \in 1..Len(wf) : MetaResponse(i)
    \/ \E i \in 1..Len(wf) : AckResponse(i)
    \/ \E i \in 1..Len(wf) : BallotResponse(i)
    \/ Propagate
    \/ Finish

Spec == Init /\ [][Next]_vars

\* Every fetch ends and the event loop keeps running what is ready.
FairSpec == Spec /\ WF_vars(Next)

\* The index parser alone: every table of up to MaxRows rows of FilterRows.
InitFilter ==
    InitWith(IndexDocs(FilterRows), {[n \in RunNumbers |-> CHOOSE p \in Profiles : TRUE]})

NextFilter == MainStart \/ IndexResponse

SpecFilter == InitFilter /\ [][NextFilter]_vars

----------------------------------------------------------------------------
(* What the properties below speak of.                                     *)

Categories ==
    {"authored", "shepherded", "responsible_approver", "balloted",
     "objected", "acknowledged", "failed"}

Dict(c) ==
    CASE c = "authored" -> AUTHOR
      [] c = "shepherded" -> SHEPHERD
      [] c = "responsible_approver" -> RESPONSIBLE_AD
      [] c = "balloted" -> BALLOTED
      [] c = "objected" -> DISCUSS
      [] c = "acknowledged" -> CONTRIBUTOR
      [] c = "failed" -> FAILED_CHECK

\* The categories that hold document number n.
CatsOf(n) == {c \in Categories : n \in DOMAIN Dict(c)}

AllEmpty == \A c \in Categories : Dict(c) = EmptyDict

\* get_possible_rfcs has returned its list.
TableReturned == pc \in {"gather", "summarised"}

\* The index fetch has been answered.
IndexAnswered == IndexRequest \in issued /\ pc # "index"

DataRows == index.tables[TableIndex]

InTable(fields) == \E j \in 1..Len(table) : table[j] = fields

\* A data row whose parse gives every field of a record.
ParsesCompletely(row) ==
    /\ row.name = "tr" /\ row.td /\ row.noscript
    /\ parse_rfc_row(row).ok
    /\ {"status", "year"} \subseteq DOMAIN parse_rfc_row(row).fields

Admissible(f) ==
    /\ f["status"] \in INCLUDE
    /\ f["issued"]
    /\ FIRST_YEAR <= f["year"] /\ f["year"] <= LAST_YEAR
    /\ FIRST_RFC <= f["number"] /\ f["number"] <= LAST_RFC

\* The text of a body that arrived and decoded holds the name.
Named(resp) ==
    /\ resp.conn
    /\ DecodeBody(resp.content).ok
    /\ Contains(DecodeBody(resp.content).text, NAME)

NumberOf(i) == table[i]["number"]

\* The categories the answers to document n's own lookups call for.
ExpectedCats(n) ==
    LET p == net[n]
    IN  IF ~p.meta.conn \/ ~p.meta.usable THEN {}
        ELSE {c \in Categories :
                \/ c = "authored" /\ Member(NAME, p.meta.authors)
                \/ c = "shepherded" /\ NamedIn(p.meta.shepherd, NAME)
                \/ c = "responsible_approver" /\ NamedIn(p.meta.ad, NAME)
                \/ c = "acknowledged" /\ Named(p.ack)
                \/ c = "balloted" /\ Named(p.ballot)
                \/ c = "objected" /\ Named(p.ballot)
                     /\ DiscussSearch(DecodeBody(p.ballot.content).text, NAME)}

\* The step in which the metadata fetch of task i fails to connect.
MetaFailureStep(i) ==
    /\ i \in 1..Len(wf)
    /\ MetaResponse(i)
    /\ ~net[NumberOf(i)].meta.conn

\* Both text lookups of document n were issued and their matches written.
LookupsClassified(n) ==
    /\ {<<"ack", n>>, <<"ballot", n>>} \subseteq issued
    /\ Named(net[n].ack) => n \in DOMAIN CONTRIBUTOR
    /\ Named(net[n].ballot) => n \in DOMAIN BALLOTED

\* A row without the <noscript> marker element.
LacksMarker(row) == ~row.noscript

\* A data row that parses, but to a dict without a status or without a year.
LacksField(row) ==
    /\ row.name = "tr" /\ row.td /\ row.noscript
    /\ parse_rfc_row(row).ok
    /\ ~({"status", "year"} \subseteq DOMAIN parse_rfc_row(row).fields)

----------------------------------------------------------------------------
(* C1.  When get_possible_rfcs returns, a row that parses completely is in *)
(* the list exactly when its status is in INCLUDE, it is issued, and its   *)
(* year and number lie in the inclusive ranges; every entry of the list is *)
(* the record of a row of the table read, is issued and has a year.        *)
C1_FilterIff ==
    TableReturned =>
        /\ \A k \in 1..Len(DataRows) :
              ParsesCompletely(DataRows[k]) =>
                 (InTable(parse_rfc_row(DataRows[k]).fields)
                    <=> Admissible(parse_rfc_row(DataRows[k]).fields))
        /\ \A j \in 1..Len(table) :
              /\ "year" \in DOMAIN table[j]
              /\ table[j]["issued"]
              /\ \E k \in 1..Len(DataRows) :
                    /\ ParsesCompletely(DataRows[k])
                    /\ table[j] = parse_rfc_row(DataRows[k]).fields

\* A table with a kept row of the last year and a complete row that is not
\* kept.
C1_Witness ==
    /\ TableReturned
    /\ \E k \in 1..Len(DataRows) :
          /\ ParsesCompletely(DataRows[k])
          /\ parse_rfc_row(DataRows[k]).fields["year"] = LAST_YEAR
          /\ InTable(parse_rfc_row(DataRows[k]).fields)
    /\ \E k \in 1..Len(DataRows) :
          /\ ParsesCompletely(DataRows[k])
          /\ ~InTable(parse_rfc_row(DataRows[k]).fields)

----------------------------------------------------------------------------
(* C2.  A connection failure on document A's metadata lookup leaves every  *)
(* other task where it was and every dictionary as it was, and A's task    *)
(* just returns: nothing is raised towards main().  In a run that reaches  *)
(* the summary after such a failure, every document B with another number  *)
(* is in exactly the categories its own answers call for.                  *)
C2_FailureIsLocal ==
    /\ [][\A i \in 1..Len(wf) :
            MetaFailureStep(i) =>
               /\ wf' = [wf EXCEPT ![i] = "done"]
               /\ pc' = pc
               /\ dicts' = dicts
               /\ notFound' = notFound
               /\ issued' = issued]_vars
    /\ [](pc = "summarised" =>
            \A i, j \in 1..Len(table) :
               (~net[NumberOf(i)].meta.conn /\ NumberOf(j) # NumberOf(i))
                  => CatsOf(NumberOf(j)) = ExpectedCats(NumberOf(j)))

\* A finished run in which A's metadata lookup failed and another document
\* was classified.
C2_Witness ==
    /\ pc = "summarised"
    /\ \E i, j \in 1..Len(table) :
          /\ ~net[NumberOf(i)].meta.conn
          /\ NumberOf(j) # NumberOf(i)
          /\ {"authored", "balloted"} \subseteq CatsOf(NumberOf(j))

----------------------------------------------------------------------------
(* C3.  As claimed: a task that has returned had its acknowledgment and    *)
(* ballot lookups issued and their matches written, whichever of its       *)
(* three lookups failed to connect.                                        *)
C3_AnyFailureGoesOn ==
    \A i \in 1..Len(wf) : wf[i] = "done" => LookupsClassified(NumberOf(i))

(* C3, amended.  A connection failure on the acknowledgment or the ballot  *)
(* lookup is 'no data from this source': the task goes on, the ballot      *)
(* lookup is still issued and every match is written.  A connection        *)
(* failure on the metadata lookup ends the task: no acknowledgment or      *)
(* ballot lookup is issued for the document and it enters no category.     *)
C3_OnlyTextFailuresGoOn ==
    \A i \in 1..Len(wf) :
       LET n == NumberOf(i)
       IN  IF net[n].meta.conn
           THEN wf[i] = "done" => LookupsClassified(n)
           ELSE /\ <<"ack", n>> \notin issued
                /\ <<"ballot", n>> \notin issued
                /\ CatsOf(n) = {}
                /\ wf[i] \in {"meta", "done", "cancelled"}

\* One task went on after its acknowledgment lookup failed and put its
\* document in balloted; another returned on a failed metadata lookup.
C3_Witness ==
    /\ \E i \in 1..Len(wf) :
          /\ wf[i] = "done"
          /\ net[NumberOf(i)].meta.conn
          /\ ~net[NumberOf(i)].ack.conn
          /\ NumberOf(i) \in DOMAIN BALLOTED
    /\ \E i \in 1..Len(wf) :
          /\ wf[i] = "done"
          /\ ~net[NumberOf(i)].meta.conn

----------------------------------------------------------------------------
(* C4.  As claimed: once the tasks are started, the summary is eventually  *)
(* produced, and no task is ever cancelled.                                *)
C4_RunsToSummary ==
    /\ (pc = "gather") ~> (pc = "summarised")
    /\ [](\A i \in 1..Len(wf) : wf[i] # "cancelled")

----------------------------------------------------------------------------
(* C5.  As claimed: when the run is over, every document is in exactly the *)
(* categories its own answers call for, whatever the order in which the    *)
(* answers arrived.                                                        *)
C5_SameResultInEveryOrder ==
    pc \in {"summarised", "crashed"} =>
        \A i \in 1..Len(table) :
           CatsOf(NumberOf(i)) = ExpectedCats(NumberOf(i))

----------------------------------------------------------------------------
(* The case C6 and C7 speak of, a text that neither encoding decodes.     *)
(* bytes.decode('latin-1') accepts every byte string, so the inner         *)
(* `except UnicodeDecodeError` of check_acknowledgments and check_ballot   *)
(* is never entered and FAILED_CHECK stays empty.                          *)
FailedStaysEmpty == FAILED_CHECK = EmptyDict

\* A body that is not UTF-8 was read as Latin-1 and classified.
Latin1FallbackUsed ==
    \E i \in 1..Len(wf) :
       /\ wf[i] \in {"ballot", "done"}
       /\ net[NumberOf(i)].ack.conn
       /\ ~Utf8Decode(net[NumberOf(i)].ack.content).ok
       /\ NumberOf(i) \in DOMAIN CONTRIBUTOR

----------------------------------------------------------------------------
(* C8.  As claimed: over an index whose rows are complete data rows, rows  *)
(* without the marker element, or data rows without a status or a year,    *)
(* the scan returns, and its list holds every complete row that passes     *)
(* the filter.                                                             *)
C8_MalformedRowsAreDropped ==
    ( /\ IndexAnswered
      /\ index.conn
      /\ Len(index.tables) >= TableIndex
      /\ \A k \in 1..Len(DataRows) :
            \/ ParsesCompletely(DataRows[k])
            \/ LacksMarker(DataRows[k])
            \/ LacksField(DataRows[k]) )
    => /\ TableReturned
       /\ \A k \in 1..Len(DataRows) :
             ( /\ ParsesCompletely(DataRows[k])
               /\ Admissible(parse_rfc_row(DataRows[k]).fields) )
             => InTable(parse_rfc_row(DataRows[k]).fields)

----------------------------------------------------------------------------
(* C9.  With an empty NAME after the command line is read, main() has      *)
(* left (sys.exit(), or getopt's exception): no request was ever handed    *)
(* to http_get, no task exists, no dictionary has an entry and the         *)
(* summary is not printed.                                                 *)
C9_EmptyNameAborts ==
    (pc # "start" /\ NAME = <<>>) =>
        /\ pc \in {"exited", "crashed"}
        /\ issued = {}
        /\ table = <<>> /\ wf = <<>>
        /\ AllEmpty

\* '-n' with an empty name: handle_arguments has exited.
C9_Witness == pc = "exited" /\ argv = <<Opt("-n", <<>>)>> /\ NAME = <<>>

----------------------------------------------------------------------------
(* C10.  Once the index fetch has failed to connect, main() has left by    *)
(* sys.exit(): no task was started, the index request is the only one      *)
(* ever made, every dictionary is empty and the summary is not printed.    *)
C10_IndexFailureAborts ==
    (IndexAnswered /\ ~index.conn) =>
        /\ pc = "aborted"
        /\ table = <<>> /\ wf = <<>>
        /\ issued = {IndexRequest}
        /\ AllEmpty

\* The index fetch failed and the run has ended.
C10_Witness == pc = "aborted" /\ ~index.conn /\ NAME = Target

----------------------------------------------------------------------------
(* What the properties of the per-document checks speak of.                *)

\* Task i has handled the answer to its metadata fetch and found it usable.
MetaChecked(i) ==
    /\ wf[i] \in {"ack", "ballot", "done"}
    /\ net[NumberOf(i)].meta.conn

\* Task i has handled the answer to its ballot fetch, which connected.
BallotChecked(i) ==
    /\ wf[i] = "done"
    /\ net[NumberOf(i)].meta.conn
    /\ net[NumberOf(i)].ballot.conn

BallotText(n) == DecodeBody(net[n].ballot.content).text

\* The numbers of the entries of the list.
TableNumbers == {NumberOf(j) : j \in 1..Len(table)}

\* No two entries of the list have the same number.
UniqueNumbers ==
    \A i, j \in 1..Len(table) : NumberOf(i) = NumberOf(j) => i = j

\* The name itself, character for character, stands in the text right
\* before the '(was Discuss)' marker block.
NameThenMarker(text, name) ==
    \E i \in 0..(Len(text) - Len(name)) :
        /\ SubSeq(text, i + 1, i + Len(name)) = name
        /\ LET a == SkipSpaces(text, i + Len(name) + 1)
               b == SkipSpaces(text, a + 1)
               c == SkipSpaces(text, b + 1)
           IN  /\ IsAt(text, a, CloseDiv)
               /\ IsAt(text, b, OpenDiv)
               /\ IsAt(text, c, WasDiscuss)

----------------------------------------------------------------------------
(* C11.  As claimed: a document whose ballot lookup connected is in        *)
(* balloted exactly when the name occurs in the ballot text, and in        *)
(* objected exactly when the name occurs there right before the            *)
(* '(was Discuss)' marker block; so a ballot with the name and without     *)
(* the marker after it gives balloted and not objected.                    *)
C11_BallotedAndObjected ==
    \A i \in 1..Len(wf) :
       BallotChecked(i) =>
          LET n == NumberOf(i)
          IN  /\ n \in DOMAIN BALLOTED <=> Contains(BallotText(n), NAME)
              /\ n \in DOMAIN DISCUSS <=> NameThenMarker(BallotText(n), NAME)

\* What does hold: the same, for a name in which no character means
\* something else in a regular expression.
PlainNameBallots ==
    NAME = Target => C11_BallotedAndObjected

\* Both cases of a plain name: one document balloted and objected, another
\* balloted with the marker elsewhere and not objected.
PlainNameBallotsSeen ==
    /\ NAME = Target
    /\ \E i \in 1..Len(wf) :
          /\ BallotChecked(i)
          /\ NumberOf(i) \in DOMAIN BALLOTED \cap DOMAIN DISCUSS
    /\ \E i \in 1..Len(wf) :
          /\ BallotChecked(i)
          /\ NumberOf(i) \in DOMAIN BALLOTED \ DOMAIN DISCUSS
          /\ Member(WasDiscuss, BallotText(NumberOf(i)))

----------------------------------------------------------------------------
(* C12.  In every reachable state, every document number in objected is    *)
(* in balloted.                                                            *)
C12_ObjectedWithinBalloted == DOMAIN DISCUSS \subseteq DOMAIN BALLOTED

\* One document is objected, and another is balloted without being
\* objected.
C12_Witness ==
    /\ DISCUSS # EmptyDict
    /\ DOMAIN BALLOTED \ DOMAIN DISCUSS # {}

----------------------------------------------------------------------------
(* C13.  A task that has returned after a usable metadata answer has put   *)
(* its document in every category one of its answers calls for: a match    *)
(* in one category keeps no other check from being made or written.        *)
C13_NoShortCircuit ==
    \A i \in 1..Len(wf) :
       (wf[i] = "done" /\ net[NumberOf(i)].meta.conn)
          => ExpectedCats(NumberOf(i)) \subseteq CatsOf(NumberOf(i))

\* A document whose metadata names the target as author and as shepherd and
\* whose ballot has the marker is authored, shepherded, balloted and
\* objected at once.
C13_Witness ==
    \E i \in 1..Len(wf) :
       /\ wf[i] = "done"
       /\ Member(NAME, net[NumberOf(i)].meta.authors)
       /\ {"authored", "shepherded", "balloted", "objected"}
             \subseteq CatsOf(NumberOf(i))

----------------------------------------------------------------------------
(* C14.  As claimed: once the metadata of a document is checked, the       *)
(* document is in shepherded exactly when the shepherd field is present    *)
(* and equals the name, and in responsible_approver exactly when the ad    *)
(* field is present and equals the name.                                   *)
C14_FieldEqualsName ==
    \A i \in 1..Len(wf) :
       MetaChecked(i) =>
          LET n == NumberOf(i)
              meta == net[n].meta
          IN  /\ n \in DOMAIN SHEPHERD
                    <=> (meta.shepherd # None /\ meta.shepherd = NAME)
              /\ n \in DOMAIN RESPONSIBLE_AD
                    <=> (meta.ad # None /\ meta.ad = NAME)

(* C14, amended.  Once the metadata of a document is checked, the document *)
(* is in shepherded exactly when the shepherd field is present and holds   *)
(* the name as a substring, and in responsible_approver exactly when the   *)
(* ad field is present and holds the name as a substring; an absent field  *)
(* matches nothing.                                                        *)
C14_FieldHoldsName ==
    \A i \in 1..Len(wf) :
       MetaChecked(i) =>
          LET n == NumberOf(i)
              meta == net[n].meta
          IN  /\ n \in DOMAIN SHEPHERD
                    <=> (meta.shepherd # None /\ Contains(meta.shepherd, NAME))
              /\ n \in DOMAIN RESPONSIBLE_AD
                    <=> (meta.ad # None /\ Contains(meta.ad, NAME))

\* A document is in shepherded on a shepherd field that holds more than the
\* name, with no ad field and out of responsible_approver.
C14_Witness ==
    \E i \in 1..Len(wf) :
       LET n == NumberOf(i)
       IN  /\ MetaChecked(i)
           /\ net[n].meta.shepherd # NAME
           /\ n \in DOMAIN SHEPHERD
           /\ net[n].meta.ad = None
           /\ n \notin DOMAIN RESPONSIBLE_AD

----------------------------------------------------------------------------
(* C15.  As claimed: when a task has returned after its metadata fetch     *)
(* connected, 'Name not found' was printed for its document if the         *)
(* document is in no category, and was not printed if the acknowledgment   *)
(* or the ballot check found the name.                                     *)
C15_NotFoundOnlyWithoutMatch ==
    \A i \in 1..Len(wf) :
       (wf[i] = "done" /\ net[NumberOf(i)].meta.conn) =>
          LET n == NumberOf(i)
          IN  /\ CatsOf(n) = {} => n \in notFound
              /\ (Named(net[n].ack) \/ Named(net[n].ballot)) => n \notin notFound

\* What does hold: the diagnostic follows the ballot check alone, since
\* `result` of check_acknowledgments is overwritten (lines 219-220).
NotFoundFollowsBallot ==
    \A i \in 1..Len(wf) :
       (wf[i] = "done" /\ net[NumberOf(i)].meta.conn) =>
          (NumberOf(i) \in notFound <=> ~Named(net[NumberOf(i)].ballot))

\* A document in acknowledged was reported as 'Name not found'.
AcknowledgedReportedNotFound ==
    \E n \in DOMAIN CONTRIBUTOR : n \in notFound

----------------------------------------------------------------------------
(* The case C16 speaks of, a run with 'ACKNOWLEDGMENTS' out of INCLUDE.    *)
(* INCLUDE starts with 'ACKNOWLEDGMENTS' in it (lines 43-50) and the only  *)
(* statement that changes it appends (line 118), under an option getopt    *)
(* does not accept; so the test of line 218 is true in every run, and      *)
(* every task whose metadata was checked has issued its acknowledgment     *)
(* lookup.                                                                 *)
AcknowledgmentsNeverSkipped ==
    \A i \in 1..Len(wf) :
       MetaChecked(i) => <<"ack", NumberOf(i)>> \in issued

\* The ballot lookup is issued for every document whose task has returned
\* after its metadata fetch connected.
BallotIssuedAfterMetadata ==
    \A i \in 1..Len(wf) :
       (wf[i] = "done" /\ net[NumberOf(i)].meta.conn)
          => <<"ballot", NumberOf(i)>> \in issued

----------------------------------------------------------------------------
(* C17.  When no two entries of the list have the same number, no          *)
(* dictionary is assigned to twice under the same number, FAILED_CHECK     *)
(* included, in whatever order the answers arrive.                         *)
C17_SlotsWrittenOnce ==
    UniqueNumbers => \A slot \in DOMAIN writes : writes[slot] <= 1

\* A finished run over two documents with different numbers, both written
\* to the same dictionary and one of them to five dictionaries or more.
C17_Witness ==
    /\ pc = "summarised"
    /\ Len(table) = 2 /\ UniqueNumbers
    /\ \A i \in 1..Len(table) : <<"balloted", NumberOf(i)>> \in DOMAIN writes
    /\ \E i \in 1..Len(table) :
          Cardinality({slot \in DOMAIN writes : slot[2] = NumberOf(i)}) >= 5

\* Two entries with the same number do write the same slot twice.
SameNumberWritesTwice ==
    \E slot \in DOMAIN writes : writes[slot] = 2

----------------------------------------------------------------------------
(* C18.  When print_result() has run, every task that was started has      *)
(* returned, and from then on no dictionary is assigned to.                *)
C18_SummaryAfterEveryTask ==
    /\ [](pc = "summarised" => \A i \in 1..Len(wf) : wf[i] = "done")
    /\ [][pc = "summarised" => (dicts' = dicts /\ writes' = writes)]_vars

\* The summary of a run over two documents with different numbers, each
\* with entries in the dictionaries.
C18_Witness ==
    /\ pc = "summarised"
    /\ Len(wf) = 2 /\ UniqueNumbers
    /\ \A i \in 1..Len(wf) : CatsOf(NumberOf(i)) # {}

----------------------------------------------------------------------------
(* C19.  Every entry number -> title of every dictionary has the number    *)
(* and the title of one entry of the list get_possible_rfcs returned;      *)
(* there is one task per entry of the list, started with that entry's      *)
(* metadata lookup; and every lookup but the index fetch is for the        *)
(* number of an entry of the list.                                         *)
C19_OnlyTheWorkingSet ==
    /\ \A c \in Categories :
          \A n \in DOMAIN Dict(c) :
             \E j \in 1..Len(table) :
                /\ table[j]["number"] = n
                /\ table[j]["title"] = Dict(c)[n]
    /\ DOMAIN wf = DOMAIN table
    /\ \A j \in 1..Len(table) : <<"meta", NumberOf(j)>> \in issued
    /\ \A request \in issued \ {IndexRequest} : request[2] \in TableNumbers

\* The summary of a run whose index had a row that parses and was filtered
\* out, next to a kept one that ended in a dictionary.
C19_Witness ==
    /\ pc = "summarised"
    /\ \E n \in TableNumbers : CatsOf(n) # {}
    /\ \E k \in 1..Len(DataRows) :
          /\ ParsesCompletely(DataRows[k])
          /\ parse_rfc_row(DataRows[k]).fields["number"] \notin TableNumbers

====
